---- MODULE Spec2Model ----
(***************************************************************************)
(* Model of transmission_simple_assessment_v2.py: the Streamlit script     *)
(* that collects tower height, span and an angle (or a distance), sums the *)
(* vertical angles of the towers in three bands (compute_sums), classifies *)
(* the >=3 degree upper sum (classify_magnitude) and builds the chart data *)
(* (visualize_towers).                                                     *)
(*                                                                         *)
(* Number representation.  Python floats are modelled in fixed point:      *)
(*   - angles are integers in tenths of a degree, truncated toward zero;   *)
(*   - heights, distances and offsets are integer metres;                  *)
(*   - the span is an integer in units of 1e-5 m, so that the literal      *)
(*     0.9999 of the step computation is represented exactly.              *)
(* math.tan / math.atan are a table of tan at every tenth of a degree.     *)
(***************************************************************************)
EXTENDS Integers, Sequences, FiniteSets

VARIABLES
    pc,                    \* position of the script run
    method_choice,         \* st.radio "Method"
    tower_height,          \* st.number_input "Tower Height (m)"
    span,                  \* st.number_input "Span Between Towers (m)", 1e-5 m
    tower_angle,           \* st.number_input "Tower Height Angle", tenths of a degree
    distance_in,           \* st.number_input "Distance to Nearest Tower (m)" as entered
    used_angle,            \* angle handed to compute_sums, tenths of a degree
    distance_used,         \* distance shown in the results (0 = None)
    step,                  \* range() step of the running loop
    x,                     \* loop variable of the running loop
    iters,                 \* number of loop bodies run by the running loop
    sums_3,                \* <<f3, c3, d3>>
    sums_21,               \* <<f21, c21, d21>>
    sums_all,              \* <<fall, call, dall>>
    counts,                \* <<n3, n21, nall>>: observations added to each band
    classification,        \* label, "" before it is computed
    triggers_intermediate, \* c3 >= 16
    towers_data,           \* list of <<phi, top_deg, color>>
    fig                    \* "unset", "None" (Angle too small) or "figure"

vars == <<pc, method_choice, tower_height, span, tower_angle, distance_in,
          used_angle, distance_used, step, x, iters, sums_3, sums_21, sums_all,
          counts, classification, triggers_intermediate, towers_data, fig>>

(***************************************************************************)
(* Bounds of the model: how many entries of each list of input values the  *)
(* user may enter, and the range of metrics given to classify_magnitude    *)
(* when it is checked on its own.                                          *)
(***************************************************************************)
NumHeights == 3
NumSpans == 7
NumAngles == 3
NumDistances == 3
MaxMetric == 60

HeightChoices == <<50, 0, -50, 20>>
\* 100.0, 30.0, 64.0, 62.5, 30.00005, 0.0, -2.5, 1000.0 metres
SpanChoices == <<10000000, 3000000, 6400000, 6250000, 3000005, 0, -250000, 100000000>>
\* 5.0, 1.0, 20.0, 3.0 degrees
AngleChoices == <<50, 10, 200, 30>>
DistanceChoices == <<500, 0, -10, 1000>>

Heights == {HeightChoices[i] : i \in 1..NumHeights}
Spans == {SpanChoices[i] : i \in 1..NumSpans}
Angles == {AngleChoices[i] : i \in 1..NumAngles}
Distances == {DistanceChoices[i] : i \in 1..NumDistances}

(***************************************************************************)
(* Program constants.                                                      *)
(***************************************************************************)
W == 4000                \* half-width of range(-4000, 4001, step)
SpanUnit == 100000       \* fixed-point unit of the span: 1 m = 10^5 units
Frac9999 == 99990        \* the literal 0.9999 in span units
MinStep == 1
Visible == 1             \* 0.1 degrees
Band21 == 21             \* 2.1 degrees
Band3 == 30              \* 3.0 degrees
CentrePhi == 950         \* 95.0 degrees
MaxPhi == 1800           \* 180 degrees
CapDeg == 400            \* 40.0 degrees
AngleMin == 10           \* min_value=1.0
AngleMax == 200          \* max_value=20.0
DefaultAngle == 50       \* 5.0 degrees
DefaultDistance == 500
VeryLowMax == 7
LowMax == 14
ModerateMax == 25
HighMax == 36
IntermediateCutoff == 16

(***************************************************************************)
(* math.tan: TanMilli[k] = round(1000 * tan(k/10 degrees)), k = 1..899.    *)
(***************************************************************************)
TanMilli ==
  <<
     2, 3, 5, 7, 9, 10, 12, 14, 16, 17, 19, 21,
     23, 24, 26, 28, 30, 31, 33, 35, 37, 38, 40, 42,
     44, 45, 47, 49, 51, 52, 54, 56, 58, 59, 61, 63,
     65, 66, 68, 70, 72, 73, 75, 77, 79, 80, 82, 84,
     86, 87, 89, 91, 93, 95, 96, 98, 100, 102, 103, 105,
     107, 109, 110, 112, 114, 116, 117, 119, 121, 123, 125, 126,
     128, 130, 132, 133, 135, 137, 139, 141, 142, 144, 146, 148,
     149, 151, 153, 155, 157, 158, 160, 162, 164, 166, 167, 169,
     171, 173, 175, 176, 178, 180, 182, 184, 185, 187, 189, 191,
     193, 194, 196, 198, 200, 202, 203, 205, 207, 209, 211, 213,
     214, 216, 218, 220, 222, 224, 225, 227, 229, 231, 233, 235,
     236, 238, 240, 242, 244, 246, 247, 249, 251, 253, 255, 257,
     259, 260, 262, 264, 266, 268, 270, 272, 274, 275, 277, 279,
     281, 283, 285, 287, 289, 291, 292, 294, 296, 298, 300, 302,
     304, 306, 308, 310, 311, 313, 315, 317, 319, 321, 323, 325,
     327, 329, 331, 333, 335, 337, 338, 340, 342, 344, 346, 348,
     350, 352, 354, 356, 358, 360, 362, 364, 366, 368, 370, 372,
     374, 376, 378, 380, 382, 384, 386, 388, 390, 392, 394, 396,
     398, 400, 402, 404, 406, 408, 410, 412, 414, 416, 418, 420,
     422, 424, 427, 429, 431, 433, 435, 437, 439, 441, 443, 445,
     447, 449, 452, 454, 456, 458, 460, 462, 464, 466, 468, 471,
     473, 475, 477, 479, 481, 483, 486, 488, 490, 492, 494, 496,
     499, 501, 503, 505, 507, 510, 512, 514, 516, 518, 521, 523,
     525, 527, 529, 532, 534, 536, 538, 541, 543, 545, 547, 550,
     552, 554, 557, 559, 561, 563, 566, 568, 570, 573, 575, 577,
     580, 582, 584, 587, 589, 591, 594, 596, 598, 601, 603, 606,
     608, 610, 613, 615, 618, 620, 622, 625, 627, 630, 632, 635,
     637, 640, 642, 644, 647, 649, 652, 654, 657, 659, 662, 664,
     667, 669, 672, 675, 677, 680, 682, 685, 687, 690, 692, 695,
     698, 700, 703, 705, 708, 711, 713, 716, 719, 721, 724, 727,
     729, 732, 735, 737, 740, 743, 745, 748, 751, 754, 756, 759,
     762, 765, 767, 770, 773, 776, 778, 781, 784, 787, 790, 793,
     795, 798, 801, 804, 807, 810, 813, 816, 818, 821, 824, 827,
     830, 833, 836, 839, 842, 845, 848, 851, 854, 857, 860, 863,
     866, 869, 872, 875, 879, 882, 885, 888, 891, 894, 897, 900,
     904, 907, 910, 913, 916, 920, 923, 926, 929, 933, 936, 939,
     942, 946, 949, 952, 956, 959, 962, 966, 969, 972, 976, 979,
     983, 986, 990, 993, 997, 1000, 1003, 1007, 1011, 1014, 1018, 1021,
     1025, 1028, 1032, 1036, 1039, 1043, 1046, 1050, 1054, 1057, 1061, 1065,
     1069, 1072, 1076, 1080, 1084, 1087, 1091, 1095, 1099, 1103, 1107, 1111,
     1115, 1118, 1122, 1126, 1130, 1134, 1138, 1142, 1146, 1150, 1154, 1159,
     1163, 1167, 1171, 1175, 1179, 1183, 1188, 1192, 1196, 1200, 1205, 1209,
     1213, 1217, 1222, 1226, 1230, 1235, 1239, 1244, 1248, 1253, 1257, 1262,
     1266, 1271, 1275, 1280, 1285, 1289, 1294, 1299, 1303, 1308, 1313, 1317,
     1322, 1327, 1332, 1337, 1342, 1347, 1351, 1356, 1361, 1366, 1371, 1376,
     1381, 1387, 1392, 1397, 1402, 1407, 1412, 1418, 1423, 1428, 1433, 1439,
     1444, 1450, 1455, 1460, 1466, 1471, 1477, 1483, 1488, 1494, 1499, 1505,
     1511, 1517, 1522, 1528, 1534, 1540, 1546, 1552, 1558, 1564, 1570, 1576,
     1582, 1588, 1594, 1600, 1607, 1613, 1619, 1625, 1632, 1638, 1645, 1651,
     1658, 1664, 1671, 1678, 1684, 1691, 1698, 1704, 1711, 1718, 1725, 1732,
     1739, 1746, 1753, 1760, 1767, 1775, 1782, 1789, 1797, 1804, 1811, 1819,
     1827, 1834, 1842, 1849, 1857, 1865, 1873, 1881, 1889, 1897, 1905, 1913,
     1921, 1929, 1937, 1946, 1954, 1963, 1971, 1980, 1988, 1997, 2006, 2014,
     2023, 2032, 2041, 2050, 2059, 2069, 2078, 2087, 2097, 2106, 2116, 2125,
     2135, 2145, 2154, 2164, 2174, 2184, 2194, 2204, 2215, 2225, 2236, 2246,
     2257, 2267, 2278, 2289, 2300, 2311, 2322, 2333, 2344, 2356, 2367, 2379,
     2391, 2402, 2414, 2426, 2438, 2450, 2463, 2475, 2488, 2500, 2513, 2526,
     2539, 2552, 2565, 2578, 2592, 2605, 2619, 2633, 2646, 2660, 2675, 2689,
     2703, 2718, 2733, 2747, 2762, 2778, 2793, 2808, 2824, 2840, 2856, 2872,
     2888, 2904, 2921, 2937, 2954, 2971, 2989, 3006, 3024, 3042, 3060, 3078,
     3096, 3115, 3133, 3152, 3172, 3191, 3211, 3230, 3251, 3271, 3291, 3312,
     3333, 3354, 3376, 3398, 3420, 3442, 3465, 3487, 3511, 3534, 3558, 3582,
     3606, 3630, 3655, 3681, 3706, 3732, 3758, 3785, 3812, 3839, 3867, 3895,
     3923, 3952, 3981, 4011, 4041, 4071, 4102, 4134, 4165, 4198, 4230, 4264,
     4297, 4331, 4366, 4402, 4437, 4474, 4511, 4548, 4586, 4625, 4665, 4705,
     4745, 4787, 4829, 4872, 4915, 4959, 5005, 5050, 5097, 5145, 5193, 5242,
     5292, 5343, 5396, 5449, 5503, 5558, 5614, 5671, 5730, 5789, 5850, 5912,
     5976, 6041, 6107, 6174, 6243, 6314, 6386, 6460, 6535, 6612, 6691, 6772,
     6855, 6940, 7026, 7115, 7207, 7300, 7396, 7495, 7596, 7700, 7806, 7916,
     8028, 8144, 8264, 8386, 8513, 8643, 8777, 8915, 9058, 9205, 9357, 9514,
     9677, 9845, 10019, 10199, 10385, 10579, 10780, 10988, 11205, 11430, 11664, 11909,
     12163, 12429, 12706, 12996, 13300, 13617, 13951, 14301, 14669, 15056, 15464, 15895,
     16350, 16832, 17343, 17886, 18464, 19081, 19740, 20446, 21205, 22022, 22904, 23859,
     24898, 26031, 27271, 28636, 30145, 31821, 33694, 35801, 38188, 40917, 44066, 47740,
     52081, 57290, 63657, 71615, 81847, 95489, 114589, 143237, 190984, 286478, 572957
  >>

Tan(k) == TanMilli[k]
Cot(k) == TanMilli[900 - k]

Abs(n) == IF n < 0 THEN -n ELSE n
Sign(n) == IF n < 0 THEN -1 ELSE IF n > 0 THEN 1 ELSE 0

(***************************************************************************)
(* int(): truncation toward zero of a value in span units.                 *)
(***************************************************************************)
IntOf(s) == IF s >= 0 THEN s \div SpanUnit ELSE -((-s) \div SpanUnit)

(***************************************************************************)
(* math.floor and math.ceil of an angle in tenths of a degree.             *)
(***************************************************************************)
Floor(raw) == raw \div 10
Ceil(raw) == (raw + 9) \div 10

(***************************************************************************)
(* classify_magnitude(value)                                               *)
(***************************************************************************)
\* the breakpoints compared with < instead of <=
classify_magnitude_strict(value) ==
    IF value < VeryLowMax THEN "Very low"
    ELSE IF value < LowMax THEN "Low"
    ELSE IF value < ModerateMax THEN "Moderate"
    ELSE IF value < HighMax THEN "High"
    ELSE "Very high"

classify_magnitude(value) ==
    IF value <= VeryLowMax THEN "Very low"
    ELSE IF value <= LowMax THEN "Low"
    ELSE IF value <= ModerateMax THEN "Moderate"
    ELSE IF value <= HighMax THEN "High"
    ELSE "Very high"

(***************************************************************************)
(* triggers_intermediate = (c3 >= 16), from the sums of the >=3 band.      *)
(***************************************************************************)
\* the cutoff applied to the lower (floor) sum instead of the upper sum
TriggerOnLowerSum(s3) == s3[1] >= IntermediateCutoff

Trigger(s3) == s3[2] >= IntermediateCutoff

(***************************************************************************)
(* step = int(span) if span == int(span) else int(span + 0.9999);          *)
(* if step < 1: step = 1                                                   *)
(***************************************************************************)
\* the step without the floor at 1
StepUnclamped(s) ==
    IF s = IntOf(s) * SpanUnit THEN IntOf(s) ELSE IntOf(s + Frac9999)

StepOf(s) ==
    LET st == IF s = IntOf(s) * SpanUnit THEN IntOf(s) ELSE IntOf(s + Frac9999)
    IN  IF st < MinStep THEN MinStep ELSE st

(***************************************************************************)
(* abs(math.tan(angle_radians)) < 1e-12: at a resolution of a tenth of a   *)
(* degree the tangent is below 1e-12 only for the angle 0.                 *)
(***************************************************************************)
Degenerate(a) == a = 0

(***************************************************************************)
(* Geometry.  Reach2(h, k) is the square, in m^2, of the distance          *)
(* h / tan(k/10 degrees) at which a tower of height h > 0 subtends the     *)
(* angle k; it is taken at centimetre precision where the square fits the  *)
(* integer width and at metre precision beyond.                            *)
(***************************************************************************)
Reach2(h, k) ==
    LET mm == h * Cot(k)
    IN  IF mm <= 463000
        THEN ((mm \div 10) * (mm \div 10)) \div 10000
        ELSE (mm \div 1000) * (mm \div 1000)

\* d = tower_height_m / math.tan(angle_radians), in metres
PerpDistance(h, a) == Sign(h) * Sign(a) * ((Abs(h) * Cot(Abs(a))) \div 1000)

\* d * d, as math.hypot(d, x) uses it
PerpDistance2(h, a) == IF h = 0 THEN 0 ELSE Reach2(Abs(h), Abs(a))

\* r * r for r = math.hypot(d, x)
Hypot2(h, a, xx) == PerpDistance2(h, a) + xx * xx

RECURSIVE RawSearch(_, _, _, _)
RawSearch(h, r2, lo, hi) ==
    IF lo = hi THEN lo
    ELSE LET mid == (lo + hi + 1) \div 2
         IN  IF r2 <= Reach2(h, mid)
             THEN RawSearch(h, r2, mid, hi)
             ELSE RawSearch(h, r2, lo, mid - 1)

\* math.degrees(math.atan(tower_height_m / r)) for r * r = r2 > 0
RawAngle(h, r2) ==
    IF h = 0 THEN 0
    ELSE Sign(h) * RawSearch(Abs(h), r2, 0, 899)

RECURSIVE AtanSearch(_, _, _, _)
AtanSearch(num, den, lo, hi) ==
    IF lo = hi THEN lo
    ELSE LET mid == (lo + hi + 1) \div 2
         IN  IF den * Tan(mid) <= num * 1000
             THEN AtanSearch(num, den, mid, hi)
             ELSE AtanSearch(num, den, lo, mid - 1)

\* math.degrees(math.atan(num / den)) for den > 0
AtanDeg(num, den) == Sign(num) * AtanSearch(Abs(num), den, 0, 899)

(***************************************************************************)
(* Band tests of compute_sums and the colour logic of visualize_towers.    *)
(***************************************************************************)
IsVisible(raw) == ~(raw < Visible)

\* the 2.1 band taken as the interval [2.1, 3.0) of the orange colour
InBand21Only(raw) == raw >= Band21 /\ raw < Band3

InBand21(raw) == raw >= Band21

InBand3(raw) == raw >= Band3

\* the colour logic with the orange tier at 2.0 degrees
ColorOfTwoDegrees(raw) ==
    IF raw >= Band3 THEN "red"
    ELSE IF raw >= 20 THEN "orange"
    ELSE "blue"

ColorOf(raw) ==
    IF raw >= Band3 THEN "red"
    ELSE IF raw >= Band21 THEN "orange"
    ELSE "blue"

AddTo(sums, raw) == <<sums[1] + Floor(raw), sums[2] + Ceil(raw), sums[3] + raw>>

Min(a, b) == IF a < b THEN a ELSE b
Max(a, b) == IF a > b THEN a ELSE b

\* horizontal angle of the tower at offset xx, d > 0
PhiOf(xx, d) ==
    IF xx = 0 THEN CentrePhi
    ELSE LET phi_calc == AtanDeg(Abs(xx), d)
             phi == IF xx > 0 THEN CentrePhi + phi_calc ELSE CentrePhi - phi_calc
         IN  Max(0, Min(MaxPhi, phi))

ZeroSums == <<0, 0, 0>>

(***************************************************************************)
(* The script above the Calculate button: it runs on every interaction and *)
(* derives used_angle and distance_used from the widgets.                  *)
(***************************************************************************)
UsedAngle(m, h, a, dist) ==
    IF m = "Use Tower Height Angle" THEN a
    ELSE IF dist > 0 THEN AtanDeg(h, dist)
    ELSE DefaultAngle

\* 0 stands for None
DistanceUsed(m, dist) ==
    IF m = "Use Tower Height Angle" THEN 0
    ELSE IF dist > 0 THEN dist
    ELSE DefaultDistance

Rerun(m, h, s, a, dist) ==
    /\ method_choice' = m
    /\ tower_height' = h
    /\ span' = s
    /\ tower_angle' = a
    /\ distance_in' = dist
    /\ used_angle' = UsedAngle(m, h, a, dist)
    /\ distance_used' = DistanceUsed(m, dist)
    /\ pc' = "input"
    /\ step' = 0
    /\ x' = 0
    /\ iters' = 0
    /\ sums_3' = ZeroSums
    /\ sums_21' = ZeroSums
    /\ sums_all' = ZeroSums
    /\ counts' = ZeroSums
    /\ classification' = ""
    /\ triggers_intermediate' = FALSE
    /\ towers_data' = <<>>
    /\ fig' = "unset"

Init ==
    /\ pc = "input"
    /\ method_choice = "Use Tower Height Angle"
    /\ tower_height = HeightChoices[1]
    /\ span = SpanChoices[1]
    /\ tower_angle = DefaultAngle
    /\ distance_in = DefaultDistance
    /\ used_angle = DefaultAngle
    /\ distance_used = 0
    /\ step = 0
    /\ x = 0
    /\ iters = 0
    /\ sums_3 = ZeroSums
    /\ sums_21 = ZeroSums
    /\ sums_all = ZeroSums
    /\ counts = ZeroSums
    /\ classification = ""
    /\ triggers_intermediate = FALSE
    /\ towers_data = <<>>
    /\ fig = "unset"

Idle == pc \in {"input", "done"}

SetMethod ==
    /\ Idle
    /\ \E m \in {"Use Tower Height Angle", "Use Distance to Nearest Tower"} :
         /\ m # method_choice
         /\ Rerun(m, tower_height, span, DefaultAngle, DefaultDistance)

SetHeight ==
    /\ Idle
    /\ \E h \in Heights :
         /\ h # tower_height
         /\ Rerun(method_choice, h, span, tower_angle, distance_in)

SetSpan ==
    /\ Idle
    /\ \E s \in Spans :
         /\ s # span
         /\ Rerun(method_choice, tower_height, s, tower_angle, distance_in)

SetAngle ==
    /\ Idle
    /\ method_choice = "Use Tower Height Angle"
    /\ \E a \in Angles :
         /\ a # tower_angle
         /\ a >= AngleMin
         /\ a <= AngleMax
         /\ Rerun(method_choice, tower_height, span, a, distance_in)

SetDistance ==
    /\ Idle
    /\ method_choice = "Use Distance to Nearest Tower"
    /\ \E dist \in Distances :
         /\ dist # distance_in
         /\ Rerun(method_choice, tower_height, span, tower_angle, dist)

inputs == <<method_choice, tower_height, span, tower_angle, distance_in,
            used_angle, distance_used>>

(***************************************************************************)
(* st.button("Calculate"): entry of compute_sums.                          *)
(***************************************************************************)
Calculate ==
    /\ pc = "input"
    /\ IF Degenerate(used_angle)
       THEN /\ pc' = "classify"
            /\ UNCHANGED <<step, x>>
       ELSE /\ pc' = "sum_loop"
            /\ step' = StepOf(span)
            /\ x' = -W
    /\ iters' = 0
    /\ sums_3' = ZeroSums
    /\ sums_21' = ZeroSums
    /\ sums_all' = ZeroSums
    /\ counts' = ZeroSums
    /\ UNCHANGED <<inputs, classification, triggers_intermediate, towers_data, fig>>

(***************************************************************************)
(* One body of the loop of compute_sums.  counts records how many          *)
(* observations were added to the >=3, the >=2.1 and the all-visible band. *)
(***************************************************************************)
SumIter ==
    /\ pc = "sum_loop"
    /\ x <= W
    /\ LET r2 == Hypot2(tower_height, used_angle, x)
           raw_angle == RawAngle(tower_height, r2)
       IN  IF r2 <= 0 \/ ~IsVisible(raw_angle)
           THEN UNCHANGED <<sums_3, sums_21, sums_all, counts>>
           ELSE /\ sums_all' = AddTo(sums_all, raw_angle)
                /\ sums_21' = IF InBand21(raw_angle)
                              THEN AddTo(sums_21, raw_angle) ELSE sums_21
                /\ sums_3' = IF InBand3(raw_angle)
                             THEN AddTo(sums_3, raw_angle) ELSE sums_3
                /\ counts' = <<counts[1] + (IF InBand3(raw_angle) THEN 1 ELSE 0),
                               counts[2] + (IF InBand21(raw_angle) THEN 1 ELSE 0),
                               counts[3] + 1>>
    /\ x' = x + step
    /\ iters' = iters + 1
    /\ UNCHANGED <<pc, inputs, step, classification, triggers_intermediate,
                   towers_data, fig>>

SumReturn ==
    /\ pc = "sum_loop"
    /\ x > W
    /\ pc' = "classify"
    /\ UNCHANGED <<inputs, step, x, iters, sums_3, sums_21, sums_all, counts,
                   classification, triggers_intermediate, towers_data, fig>>

(***************************************************************************)
(* classification = classify_magnitude(c3); triggers_intermediate          *)
(***************************************************************************)
Classify ==
    /\ pc = "classify"
    /\ classification' = classify_magnitude(sums_3[2])
    /\ triggers_intermediate' = Trigger(sums_3)
    /\ pc' = "visualize"
    /\ UNCHANGED <<inputs, step, x, iters, sums_3, sums_21, sums_all, counts,
                   towers_data, fig>>

(***************************************************************************)
(* visualize_towers: one call.  Offsets(st) is range(-4000, 4001, st); the *)
(* loop keeps, for every offset that passes the two filters, the tuple     *)
(* (phi, top_deg, color).                                                  *)
(***************************************************************************)
Offsets(st) == [i \in 1..((2 * W) \div st + 1) |-> -W + (i - 1) * st]

TowersData(h, a, st) ==
    LET d == PerpDistance(h, a)
        Seen(xx) == LET r2 == Hypot2(h, a, xx)
                    IN  <<xx, r2, RawAngle(h, r2)>>
        all == [i \in DOMAIN Offsets(st) |-> Seen(Offsets(st)[i])]
        Kept(o) == ~(o[2] <= 0) /\ IsVisible(o[3])
        kept == SelectSeq(all, Kept)
    IN  [i \in DOMAIN kept |->
            <<PhiOf(kept[i][1], d), Min(kept[i][3], CapDeg), ColorOf(kept[i][3])>>]

Visualize ==
    /\ pc = "visualize"
    /\ IF Degenerate(used_angle)
       THEN /\ fig' = "None"
            /\ towers_data' = <<>>
            /\ UNCHANGED step
       ELSE /\ step' = StepOf(span)
            /\ towers_data' = TowersData(tower_height, used_angle, StepOf(span))
            /\ fig' = "figure"
    /\ pc' = "done"
    /\ UNCHANGED <<inputs, x, iters, sums_3, sums_21, sums_all, counts,
                   classification, triggers_intermediate>>

Next ==
    \/ SetMethod
    \/ SetHeight
    \/ SetSpan
    \/ SetAngle
    \/ SetDistance
    \/ Calculate
    \/ SumIter
    \/ SumReturn
    \/ Classify
    \/ Visualize

Spec == Init /\ [][Next]_vars

(***************************************************************************)
(* classify_magnitude and the trigger on their own: the metric is drawn    *)
(* from -MaxMetric..MaxMetric and the two lines of the Calculate handler   *)
(* are applied to it.                                                      *)
(***************************************************************************)
InitClassify ==
    /\ pc = "classify"
    /\ method_choice = "Use Tower Height Angle"
    /\ tower_height = HeightChoices[1]
    /\ span = SpanChoices[1]
    /\ tower_angle = DefaultAngle
    /\ distance_in = DefaultDistance
    /\ used_angle = DefaultAngle
    /\ distance_used = 0
    /\ step = StepOf(SpanChoices[1])
    /\ x = 0
    /\ iters = 0
    /\ \E c \in -MaxMetric..MaxMetric :
         /\ sums_3 = <<0, c, 0>>
         /\ sums_21 = <<0, c, 0>>
         /\ sums_all = <<0, c, 0>>
    /\ counts = ZeroSums
    /\ classification = ""
    /\ triggers_intermediate = FALSE
    /\ towers_data = <<>>
    /\ fig = "unset"

NextClassify == Classify

SpecClassify == InitClassify /\ [][NextClassify]_vars

(***************************************************************************)
(* Properties.                                                             *)
(***************************************************************************)
Labels == {"Very low", "Low", "Moderate", "High", "Very high"}

\* C1: every integer metric gets exactly one of the five labels, and the
\* label changes exactly at 7/8, 14/15, 25/26 and 36/37: value <= 7 is
\* "Very low", 8..14 "Low", 15..25 "Moderate", 26..36 "High", >= 37 "Very high".
C1_ClassifyPartition ==
    classification # "" =>
        LET v == sums_3[2]
        IN  /\ classification \in Labels
            /\ (classification = "Very low") <=> (v <= 7)
            /\ (classification = "Low") <=> (v >= 8 /\ v <= 14)
            /\ (classification = "Moderate") <=> (v >= 15 /\ v <= 25)
            /\ (classification = "High") <=> (v >= 26 /\ v <= 36)
            /\ (classification = "Very high") <=> (v >= 37)

C1_Witness == classification = "Low" /\ sums_3[2] = 8

\* C2: band nesting holds in every state of the compute_sums loop and in the
\* returned result: the floor, ceil and decimal sums and the number of
\* observations of the >=3.0 band never exceed those of the >=2.1 band, which
\* never exceed those of the all-visible band.
C2_BandNesting ==
    \A i \in 1..3 :
        /\ sums_3[i] <= sums_21[i]
        /\ sums_21[i] <= sums_all[i]
        /\ counts[1] <= counts[2]
        /\ counts[2] <= counts[3]

C2_Witness ==
    /\ pc = "sum_loop"
    /\ counts[1] > 0
    /\ counts[2] > counts[1]
    /\ counts[3] > counts[2]
    /\ sums_3[2] < sums_21[2]
    /\ sums_21[2] < sums_all[2]

\* C3: when the reference angle's tangent is numerically zero, the result of
\* compute_sums differs from all-zero sums and the caller does not classify
\* it as "Very low".
C3_DegenerateIsDistinct ==
    (pc \in {"classify", "visualize", "done"} /\ Degenerate(used_angle)) =>
        /\ <<sums_3, sums_21, sums_all>> # <<ZeroSums, ZeroSums, ZeroSums>>
        /\ classification # "Very low"

InvalidInput ==
    \/ tower_height <= 0
    \/ span <= 0
    \/ used_angle <= 0
    \/ (method_choice = "Use Distance to Nearest Tower" /\ distance_in <= 0)

\* C4: invalid input (height <= 0, span <= 0, reference angle <= 0 or a
\* supplied distance <= 0) is rejected: the run never goes on to compute sums,
\* a classification or a chart, and a distance <= 0 is not replaced by the
\* angle 5.0 and the distance 500.
C4_InvalidInputRejected ==
    InvalidInput =>
        /\ pc = "input"
        /\ (method_choice = "Use Distance to Nearest Tower" /\ distance_in <= 0)
              => (used_angle # DefaultAngle /\ distance_used # DefaultDistance)

\* C5: for height > 0, span > 0 and a reference angle in (0, 90) degrees the
\* offsets sampled by compute_sums include x = 0: the first offset that is
\* not negative is 0.
C5_CentreSampled ==
    (/\ pc = "sum_loop"
     /\ tower_height > 0
     /\ span > 0
     /\ used_angle > 0
     /\ used_angle < 900
     /\ x >= 0
     /\ x < step) => x = 0

\* y is one of range(-4000, 4001, st)
InOffsets(y, st) == y >= -W /\ y <= W /\ (y + W) % st = 0

\* C6: the offsets sampled across [-4000, 4000] are symmetric about zero:
\* whenever the loop samples x, -x is an offset of the same range.
C6_OffsetsSymmetric ==
    (pc = "sum_loop" /\ x <= W) => InOffsets(-x, step)

\* C7: compute_sums terminates for any span: the step is an integer >= 1, the
\* loop variable advances by the step with every body, and the loop returns
\* after at most 2*4000/step + 1 bodies.
C7_LoopBounded ==
    (pc \in {"sum_loop", "classify", "visualize", "done"} /\ ~Degenerate(used_angle)) =>
        /\ step >= 1
        /\ iters <= (2 * 4000) \div step + 1
        /\ x = -4000 + iters * step
        /\ (pc = "sum_loop" /\ iters = (2 * 4000) \div step + 1) => x > 4000
        /\ pc # "sum_loop" => x > 4000

C7_Witness ==
    /\ pc = "classify"
    /\ span < 0
    /\ span % SpanUnit # 0
    /\ step = 1
    /\ iters = 8001

\* C8: the trigger and the label come from the same metric and agree: the
\* trigger is true exactly when the ceil-sum of the >=3.0 band is >= 16, a
\* true trigger comes with Moderate, High or Very high, and Very low or Low
\* never comes with a trigger.
C8_TriggerAgreesWithLabel ==
    classification # "" =>
        /\ triggers_intermediate <=> (sums_3[2] >= 16)
        /\ triggers_intermediate => classification \in {"Moderate", "High", "Very high"}
        /\ classification \in {"Very low", "Low"} => ~triggers_intermediate

C8_Witness ==
    /\ triggers_intermediate
    /\ sums_3[2] = 16
    /\ classification = "Moderate"

\* ceil of a span in span units
CeilOf(s) == -((-s) \div SpanUnit)

\* C9: the step is the span rounded up to the next integer when the span is
\* fractional, the span itself when it is an integer >= 1, and 1 whenever that
\* value would be below 1.
C9_StepIsCeilOfSpan ==
    (pc \in {"sum_loop", "classify", "visualize", "done"} /\ ~Degenerate(used_angle)) =>
        step = (IF CeilOf(span) < 1 THEN 1 ELSE CeilOf(span))

NumColor(c) == Cardinality({i \in DOMAIN towers_data : towers_data[i][3] = c})

\* C10: for a non-degenerate angle visualize_towers keeps exactly as many
\* points as compute_sums aggregated observations, the red points are as many
\* as the observations of the >=3.0 band, red and orange together as many as
\* those of the >=2.1 band, and every point has the colour of the highest band
\* its angle satisfies (>= 3.0 red, >= 2.1 orange, else blue).
C10_RenderMatchesSums ==
    (pc = "done" /\ fig = "figure") =>
        /\ Len(towers_data) = counts[3]
        /\ NumColor("red") = counts[1]
        /\ NumColor("red") + NumColor("orange") = counts[2]
        /\ \A i \in DOMAIN towers_data :
              LET top == towers_data[i][2]
                  color == towers_data[i][3]
              IN  /\ (color = "red") <=> (top >= 30)
                  /\ (color = "orange") <=> (top >= 21 /\ top < 30)
                  /\ (color = "blue") <=> (top >= 1 /\ top < 21)

C10_Witness ==
    /\ pc = "done"
    /\ fig = "figure"
    /\ NumColor("red") > 0
    /\ NumColor("orange") > 0
    /\ NumColor("blue") > 0
    /\ Len(towers_data) = counts[3]
====
